---- MODULE Spec2Model ----
(***************************************************************************)
(* A model of petpeeve: the link model (links.py), the simple-API page     *)
(* parser and index server (indexes/simpleapi/__init__.py) and the         *)
(* requirement specification (requirements.py).                            *)
(*                                                                         *)
(* Text is modelled as a sequence of tokens.  A token is a run of          *)
(* characters that the program never looks inside ("pkg", "1.0", "py3"),   *)
(* the separator "-", or a whole file extension (".whl", ".tar.gz").       *)
(***************************************************************************)
EXTENDS Integers, Sequences, FiniteSets, TLC

VARIABLES
    \* SimplePageParser: the markup fed, the feed position, parser.links and
    \* the exception that left feed(), if any
    page, pos, links, perr,
    \* IndexServer.get_links / get_dependencies on one cached page
    cpage, cand, offline, supported, lpc, clinks, li, tried, dres,
    \* IndexServer._get_package_links behind the page cache
    cache, call, flights, hist,
    \* RequirementSpecification
    rs, rs0, rpc, sel, ret, warned, ncalls,
    \* RequirementSpecification.from_wheel on one wheel's metadata
    wheel_requires, wpc, built,
    \* WheelDistributionLink.is_binary_compatible on one wheel link
    wlink, wsupported, compat

parserVars == <<page, pos, links, perr>>
linkVars   == <<cpage, cand, offline, supported, lpc, clinks, li, tried, dres>>
serverVars == <<cache, call, flights, hist>>
reqVars    == <<rs, rs0, rpc, sel, ret, warned, ncalls>>
wheelVars  == <<wheel_requires, wpc, built>>
tagVars    == <<wlink, wsupported, compat>>
vars       == <<parserVars, linkVars, serverVars, reqVars, wheelVars, tagVars>>

(***************************************************************************)
(* Bounds of the model.                                                    *)
(***************************************************************************)
MaxAnchors == 3
MaxLinks == 3
MaxRequires == 2
MaxSelected == 2
MaxDepCalls == 2
NumCallers == 2
NumPackages == 3
MaxServerCalls == 4
\* the capacity of the page cache in the model; the program's is 64
CacheBound == 2

(***************************************************************************)
(* Text helpers (str.endswith, str.split, str.rsplit, int).                *)
(***************************************************************************)
Digits == {"0", "1", "2", "7"}

DigitVal(d) ==
    CASE d = "0" -> 0 [] d = "1" -> 1 [] d = "2" -> 2 [] d = "7" -> 7

\* filename.endswith(ext): an extension is one token
EndsWith(filename, ext) ==
    Len(filename) > 0 /\ filename[Len(filename)] = ext

\* filename[:-len(ext)]
StripExt(filename) == SubSeq(filename, 1, Len(filename) - 1)

\* index of the first "-" at or after i, 0 when there is none
RECURSIVE FindDash(_, _)
FindDash(s, i) ==
    IF i > Len(s) THEN 0
    ELSE IF s[i] = "-" THEN i
    ELSE FindDash(s, i + 1)

\* index of the last "-" at or before i, 0 when there is none
RECURSIVE RFindDash(_, _)
RFindDash(s, i) ==
    IF i < 1 THEN 0
    ELSE IF s[i] = "-" THEN i
    ELSE RFindDash(s, i - 1)

\* s.split('-'): always at least one (possibly empty) part
RECURSIVE Split(_)
Split(s) ==
    LET d == FindDash(s, 1) IN
    IF d = 0 THEN <<s>>
    ELSE <<SubSeq(s, 1, d - 1)>> \o Split(SubSeq(s, d + 1, Len(s)))

\* s.rsplit('-', 1): one part when s holds no "-", two otherwise
RSplit1(s) ==
    LET d == RFindDash(s, Len(s)) IN
    IF d = 0 THEN <<s>>
    ELSE <<SubSeq(s, 1, d - 1), SubSeq(s, d + 1, Len(s))>>

\* int(s) succeeds on a non-empty run of digits
IsInt(s) == Len(s) > 0 /\ \A i \in 1..Len(s) : s[i] \in Digits

RECURSIVE IntOf(_)
IntOf(s) ==
    IF Len(s) = 0 THEN 0
    ELSE 10 * IntOf(SubSeq(s, 1, Len(s) - 1)) + DigitVal(s[Len(s)])

\* packaging.version.parse: never fails (falls back to a legacy version);
\* "1.0" and "1" are the same release
PackagingVersionParse(ver) == IF ver = <<"1.0">> THEN <<"1">> ELSE ver

(***************************************************************************)
(* links.py                                                                *)
(***************************************************************************)
NoBuild == <<>>

\* The info of a link whose construction raised: never read.
NullInfo ==
    [distribution_name |-> <<>>, version |-> <<>>, build_tag |-> NoBuild,
     language_implementation_tag |-> <<>>, abi_tag |-> <<>>,
     platform_tag |-> <<>>]

Raised(exc) == [raised |-> exc, info |-> NullInfo]
Returned(i) == [raised |-> "none", info |-> i]

\* SourceInformation(name, version); the wheel-only fields stay empty
SourceInformation(name, version) ==
    [distribution_name |-> name, version |-> version, build_tag |-> NoBuild,
     language_implementation_tag |-> <<>>, abi_tag |-> <<>>,
     platform_tag |-> <<>>]

WheelInformation(name, version, build, impl, abi, plat) ==
    [distribution_name |-> name, version |-> version, build_tag |-> build,
     language_implementation_tag |-> impl, abi_tag |-> abi,
     platform_tag |-> plat]

\* SourceDistributionLink.parse_for_info: a two-name unpacking of rsplit
SourceParseForInfo(file_stem) ==
    LET parts == RSplit1(file_stem) IN
    IF Len(parts) # 2 THEN Raised("ValueError")
    ELSE Returned(SourceInformation(parts[1], PackagingVersionParse(parts[2])))

\* WheelDistributionLink.parse_for_info
WheelParseForInfo(file_stem) ==
    LET parts == Split(file_stem) IN
    IF Len(parts) = 6
    THEN IF IsInt(parts[3])
         THEN Returned(WheelInformation(
                  parts[1], PackagingVersionParse(parts[2]),
                  <<IntOf(parts[3])>>, parts[4], parts[5], parts[6]))
         ELSE Raised("ValueError")
    ELSE IF Len(parts) = 5
    THEN Returned(WheelInformation(
             parts[1], PackagingVersionParse(parts[2]),
             NoBuild, parts[3], parts[4], parts[5]))
    \* neither branch binds `ver`
    ELSE Raised("UnboundLocalError")

WANTED_EXTENSIONS ==
    << [ext |-> ".whl",     klass |-> "WheelDistributionLink"],
       [ext |-> ".tar.gz",  klass |-> "SourceDistributionLink"],
       [ext |-> ".tar.bz2", klass |-> "SourceDistributionLink"],
       [ext |-> ".zip",     klass |-> "SourceDistributionLink"] >>

RECURSIVE SelectFrom(_, _)
SelectFrom(filename, i) ==
    IF i > Len(WANTED_EXTENSIONS)
    THEN [raised |-> "UnwantedLink", klass |-> "", file_stem |-> <<>>,
          file_extension |-> ""]
    ELSE IF EndsWith(filename, WANTED_EXTENSIONS[i].ext)
    THEN [raised |-> "none", klass |-> WANTED_EXTENSIONS[i].klass,
          file_stem |-> StripExt(filename),
          file_extension |-> WANTED_EXTENSIONS[i].ext]
    ELSE SelectFrom(filename, i + 1)

\* select_link_constructor / _select_link_klass
select_link_constructor(filename) == SelectFrom(filename, 1)

\* Link.__init__ through the partial that select_link_constructor returns
LinkInit(ctor, url, checksum, python_specifier) ==
    LET parsed == IF ctor.klass = "WheelDistributionLink"
                  THEN WheelParseForInfo(ctor.file_stem)
                  ELSE SourceParseForInfo(ctor.file_stem) IN
    [raised |-> parsed.raised,
     link |-> [klass |-> ctor.klass, url |-> url, checksum |-> checksum,
               file_stem |-> ctor.file_stem,
               extension |-> ctor.file_extension,
               python_specifier |-> python_specifier,
               info |-> parsed.info]]

\* Link.filename
Filename(link) == Append(link.file_stem, link.extension)

(***************************************************************************)
(* indexes/simpleapi/__init__.py: SimplePageParser                         *)
(***************************************************************************)
BaseUrl == "https://idx/simple/pkg/"

\* the last path segment of BaseUrl: the filename of an href without a path
BaseFilename == <<>>

\* packaging.specifiers.SpecifierSet(value): "" accepts any version
ValidSpecifiers == {"", ">=3"}

\* an attribute of a start tag: href carries urlsplit(value), the others text
HrefAttr(path, fragment) ==
    [attr |-> "href", path |-> path, fragment |-> fragment, text |-> ""]
TextAttr(attr, text) ==
    [attr |-> attr, path |-> <<>>, fragment |-> "", text |-> text]

\* the locals of handle_starttag before its loop over attrs
AttrStart ==
    [url_parts |-> FALSE, path |-> <<>>, checksum |-> "",
     python_specifier |-> "", raised |-> "none"]

\* the loop over attrs, from attribute i on
RECURSIVE ScanAttrs(_, _, _)
ScanAttrs(attrs, i, st) ==
    IF i > Len(attrs) \/ st.raised # "none" THEN st
    ELSE LET a == attrs[i] IN
         IF a.attr = "href"
         THEN ScanAttrs(attrs, i + 1,
                  [st EXCEPT !.url_parts = TRUE, !.path = a.path,
                             !.checksum = a.fragment])
         ELSE IF a.attr = "data-requires-python"
         THEN IF a.text \in ValidSpecifiers
              THEN ScanAttrs(attrs, i + 1,
                       [st EXCEPT !.python_specifier = a.text])
              ELSE [st EXCEPT !.raised = "InvalidSpecifier"]
         ELSE ScanAttrs(attrs, i + 1, st)

\* urlunsplit(base_url_parts._replace(**replacements)): an empty part of the
\* href keeps the part of the base URL
ResolveUrl(path) == [base |-> BaseUrl, path |-> path]

\* url.rsplit('/', 1)[-1]
UrlFilename(url) == IF url.path = <<>> THEN BaseFilename ELSE url.path

\* SimplePageParser.handle_starttag: the parser after one start tag, as
\* [links, raised]
handle_starttag(parser_links, tag, attrs) ==
    IF tag # "a" THEN [links |-> parser_links, raised |-> "none"]
    ELSE
    LET st == ScanAttrs(attrs, 1, AttrStart) IN
    IF st.raised # "none" THEN [links |-> parser_links, raised |-> st.raised]
    ELSE IF ~st.url_parts THEN [links |-> parser_links, raised |-> "none"]
    ELSE
    LET url  == ResolveUrl(st.path)
        ctor == select_link_constructor(UrlFilename(url)) IN
    IF ctor.raised = "UnwantedLink"
    THEN [links |-> parser_links, raised |-> "none"]
    ELSE
    LET made == LinkInit(ctor, url, st.checksum, st.python_specifier) IN
    IF made.raised # "none"
    THEN [links |-> parser_links, raised |-> made.raised]
    ELSE [links |-> Append(parser_links, made.link), raised |-> "none"]

(***************************************************************************)
(* The pages fed to the parser.                                            *)
(***************************************************************************)
Wheel5(ver, plat) ==
    <<"pkg", "-", ver, "-", "py3", "-", "none", "-", plat, ".whl">>
Wheel6(build) ==
    <<"pkg", "-", "1.0", "-", build, "-", "py3", "-", "none", "-", "any",
      ".whl">>
Wheel4 == <<"pkg", "-", "1.0", "-", "py3", "-", "none", ".whl">>
Sdist(ver, ext) == <<"pkg", "-", ver, ext>>
SdistNoDash == <<"pkg", ".tar.bz2">>
Installer == <<"pkg", "-", "1.0", ".exe">>

WellFormedNames ==
    { Wheel5("1.0", "any"), Wheel5("1", "win"), Wheel5("2", "any"),
      Wheel6("7"), Sdist("1.0", ".tar.gz"), Sdist("2", ".zip") }
MalformedNames == { Wheel6("b"), Wheel4, SdistNoDash }
UnwantedNames == { Installer }

Anchor(attrs) == [tag |-> "a", attrs |-> attrs]

Tags ==
    { Anchor(<<HrefAttr(f, "sha256=abc")>>) : f \in WellFormedNames }
    \cup { Anchor(<<HrefAttr(f, "")>>) : f \in MalformedNames \cup UnwantedNames }
    \cup { Anchor(<<HrefAttr(Wheel5("1.0", "any"), ""),
                   TextAttr("data-requires-python", ">=3")>>),
           Anchor(<<TextAttr("data-requires-python", ">=3"),
                   HrefAttr(Sdist("1.0", ".tar.gz"), "")>>),
           Anchor(<<HrefAttr(Sdist("2", ".zip"), ""),
                   TextAttr("data-requires-python", "bad")>>),
           Anchor(<<TextAttr("name", "top")>>),
           Anchor(<<HrefAttr(<<>>, "")>>),
           [tag |-> "link", attrs |-> <<HrefAttr(Wheel5("1.0", "any"), "")>>] }

RECURSIVE SeqsUpTo(_, _)
SeqsUpTo(S, n) ==
    IF n = 0 THEN {<<>>}
    ELSE LET shorter == SeqsUpTo(S, n - 1) IN
         shorter \cup { Append(s, x) : s \in shorter, x \in S }

Pages == SeqsUpTo(Tags, MaxAnchors)

ParserIdle == page = <<>> /\ pos = 1 /\ links = <<>> /\ perr = "idle"

\* SimplePageParser(base_url) and the markup handed to feed()
ParserInit == page \in Pages /\ pos = 1 /\ links = <<>> /\ perr = "none"

\* feed() reaches the next start tag; an exception of the handler leaves feed()
FeedTag ==
    /\ perr = "none"
    /\ pos <= Len(page)
    /\ LET r == handle_starttag(links, page[pos].tag, page[pos].attrs) IN
       /\ links' = r.links
       /\ perr' = r.raised
    /\ pos' = pos + 1
    /\ UNCHANGED <<page, linkVars, serverVars, reqVars, wheelVars, tagVars>>


NoResult == [kind |-> "none", wheel |-> <<>>, warned |-> FALSE]

(***************************************************************************)
(* links.py: compatibility and materialization;                            *)
(* indexes/simpleapi/__init__.py: IndexServer.get_links, get_dependencies  *)
(***************************************************************************)
\* a compatibility test that leaves the platform tag out of the comparison
is_binary_compatible_any_platform(link, supported_tags) ==
    \E tag \in supported_tags :
        /\ tag[1] = link.info.language_implementation_tag
        /\ tag[2] = link.info.abi_tag

\* WheelDistributionLink.is_binary_compatible against the tags that
\* pep425tags.get_supported() returns
is_binary_compatible(link, supported_tags) ==
    LET wheel_tag == <<link.info.language_implementation_tag,
                       link.info.abi_tag, link.info.platform_tag>> IN
    IF wheel_tag \notin supported_tags THEN FALSE ELSE TRUE

\* a sort key that puts the compatible wheels first
link_sort_key_inverted(link, supported_tags) ==
    IF link.klass # "WheelDistributionLink" THEN 0
    ELSE IF is_binary_compatible(link, supported_tags) THEN -1 ELSE 1

\* _link_sort_key: only a wheel link has is_binary_compatible
link_sort_key(link, supported_tags) ==
    IF link.klass # "WheelDistributionLink" THEN 0
    ELSE IF is_binary_compatible(link, supported_tags) THEN 1 ELSE -1

\* one step of sorted(): x goes behind every element whose key is not greater
RECURSIVE InsertByKey(_, _, _)
InsertByKey(done, x, supported_tags) ==
    IF done = <<>> THEN <<x>>
    ELSE IF link_sort_key(done[Len(done)], supported_tags)
                <= link_sort_key(x, supported_tags)
    THEN Append(done, x)
    ELSE Append(InsertByKey(SubSeq(done, 1, Len(done) - 1), x, supported_tags),
                done[Len(done)])

\* sorted(iterable, key=_link_sort_key): a stable sort
RECURSIVE SortedByKey(_, _)
SortedByKey(ls, supported_tags) ==
    IF ls = <<>> THEN <<>>
    ELSE InsertByKey(SortedByKey(SubSeq(ls, 1, Len(ls) - 1), supported_tags),
                     ls[Len(ls)], supported_tags)

\* the generator of get_links: the links of the candidate's version
VersionLinks(package_links, version) ==
    SelectSeq(package_links, LAMBDA link : link.info.version = version)

\* IndexServer.get_links(candidate) on the links of the candidate's page
get_links(package_links, version, supported_tags) ==
    SortedByKey(VersionLinks(package_links, version), supported_tags)

\* Link.as_wheel(offline): found is the answer of the wheel store
\* (get_wheel_path, get_built_wheel_path): a path or nothing
as_wheel(link, off, found) ==
    IF link.klass = "SourceDistributionLink"
    THEN IF off THEN "WheelNotFoundError"
         ELSE IF ~found THEN "WheelNotFoundError" ELSE "Wheel"
    ELSE IF ~found THEN "WheelNotFoundError" ELSE "Wheel"

LinkOf(filename) ==
    LinkInit(select_link_constructor(filename), ResolveUrl(filename), "", "").link

\* the links of a package's page, as _get_package_links returns them
PageLinks ==
    { LinkOf(f) : f \in { Wheel5("1.0", "any"), Wheel5("1", "win"),
                          Wheel5("2", "any"), Sdist("1.0", ".tar.gz"),
                          Sdist("2", ".zip") } }

CandidateVersions == { PackagingVersionParse(<<"1.0">>), <<"2">>, <<"3">> }

\* a tag triple of pep425tags: each tag is a piece of text
Tag(impl, abi, plat) == << <<impl>>, <<abi>>, <<plat>> >>

\* what pep425tags.get_supported() may return
SupportedTagSets ==
    { {}, {Tag("py3", "none", "any")},
      {Tag("py3", "none", "any"), Tag("py3", "none", "win")} }

LinksInit ==
    /\ cpage \in SeqsUpTo(PageLinks, MaxLinks)
    /\ cand \in CandidateVersions
    /\ offline \in BOOLEAN
    /\ supported \in SupportedTagSets
    /\ lpc = "start" /\ clinks = <<>> /\ li = 1 /\ tried = <<>>
    /\ dres = NoResult

\* get_dependencies: for link in self.get_links(candidate)
GetLinks ==
    /\ lpc = "start"
    /\ clinks' = get_links(cpage, cand, supported)
    /\ lpc' = "loop"
    /\ UNCHANGED <<cpage, cand, offline, supported, li, tried, dres>>
    /\ UNCHANGED <<parserVars, serverVars, reqVars, wheelVars, tagVars>>

\* get_dependencies: the loop body on the next link
TryLink ==
    /\ lpc = "loop"
    /\ li <= Len(clinks)
    /\ \E found \in BOOLEAN :
         LET wheel == as_wheel(clinks[li], offline, found) IN
         /\ tried' = Append(tried, IF wheel = "Wheel" THEN "artifact"
                                                      ELSE "unavailable")
         /\ IF wheel = "WheelNotFoundError"
            \* as_wheel raised: nothing in get_dependencies catches it
            THEN /\ dres' = [kind |-> "WheelNotFoundError", wheel |-> <<>>,
                             warned |-> FALSE]
                 /\ lpc' = "done"
            \* a Wheel is truthy: return DependencySet.from_wheel(wheel)
            ELSE /\ dres' = [kind |-> "from_wheel",
                             wheel |-> Filename(clinks[li]), warned |-> FALSE]
                 /\ lpc' = "done"
    /\ li' = li + 1
    /\ UNCHANGED <<cpage, cand, offline, supported, clinks>>
    /\ UNCHANGED <<parserVars, serverVars, reqVars, wheelVars, tagVars>>

\* get_dependencies: the loop is over; warn and return []
NoWheel ==
    /\ lpc = "loop"
    /\ li > Len(clinks)
    /\ dres' = [kind |-> "empty", wheel |-> <<>>, warned |-> TRUE]
    /\ lpc' = "done"
    /\ UNCHANGED <<cpage, cand, offline, supported, clinks, li, tried>>
    /\ UNCHANGED <<parserVars, serverVars, reqVars, wheelVars, tagVars>>

(***************************************************************************)
(* links.py: WheelDistributionLink.is_binary_compatible asked of one wheel *)
(* link, and of a link whose file name differs in one tag                  *)
(***************************************************************************)
MaxTagChanges == 1

ImplTags == {"py3", "py2", "py2.py3"}
AbiTags == {"none", "cp37"}
PlatTags == {"any", "win"}

WheelTagged(impl, abi, plat) ==
    <<"pkg", "-", "1.0", "-", impl, "-", abi, "-", plat, ".whl">>

\* the wheel links of every tag triple
TaggedLinks ==
    { LinkOf(WheelTagged(impl, abi, plat)) :
        impl \in ImplTags, abi \in AbiTags, plat \in PlatTags }

\* what pep425tags.get_supported() may return on the target environment
TargetTagSets ==
    SupportedTagSets
    \cup { {Tag("py3", "none", "any"), Tag("py2", "none", "any"),
            Tag("py3", "cp37", "win")} }

\* the number of tags in which the file names of two wheel links differ
TagDistance(a, b) ==
    (IF a.info.language_implementation_tag = b.info.language_implementation_tag
     THEN 0 ELSE 1)
    + (IF a.info.abi_tag = b.info.abi_tag THEN 0 ELSE 1)
    + (IF a.info.platform_tag = b.info.platform_tag THEN 0 ELSE 1)

NoAnswer == [link |-> <<>>, result |-> FALSE]

TagIdle ==
    /\ wlink = <<>> /\ wsupported = {}
    /\ compat = [state |-> "idle", result |-> FALSE, changes |-> 0,
                 before |-> NoAnswer]

\* a wheel link and the tags of the environment it is judged on
TagInit ==
    /\ wlink \in TaggedLinks
    /\ wsupported \in TargetTagSets
    /\ compat = [state |-> "start", result |-> FALSE, changes |-> 0,
                 before |-> NoAnswer]

\* link.is_binary_compatible()
IsBinaryCompatible ==
    /\ compat.state \in {"start", "changed"}
    /\ compat' = [compat EXCEPT
                     !.state = "asked",
                     !.result = is_binary_compatible(wlink, wsupported)]
    /\ UNCHANGED <<wlink, wsupported>>
    /\ UNCHANGED <<parserVars, linkVars, serverVars, reqVars, wheelVars>>

\* the link of a file name that differs from the last one in one tag
ChangeTag ==
    /\ compat.state = "asked"
    /\ compat.changes < MaxTagChanges
    /\ \E other \in TaggedLinks :
         /\ TagDistance(wlink, other) = 1
         /\ wlink' = other
    /\ compat' = [compat EXCEPT
                     !.state = "changed",
                     !.changes = @ + 1,
                     !.before = [link |-> wlink, result |-> compat.result]]
    /\ UNCHANGED wsupported
    /\ UNCHANGED <<parserVars, linkVars, serverVars, reqVars, wheelVars>>

(***************************************************************************)
(* requirements.py                                                         *)
(*                                                                         *)
(* A requirement string is a sequence of tokens: the name, then ";" and    *)
(* the marker, a run of marker clauses joined by "and".                    *)
(***************************************************************************)
ExtraClauses == {"extra=='a'", "extra=='b'"}

\* the name that a clause extra == '<name>' carries
ExtraName(clause) == IF clause = "extra=='a'" THEN "a" ELSE "b"

\* packaging's Requirement(s): the name and the marker behind ";"
BaseRequirement(s) ==
    [name |-> s[1],
     marker |-> IF Len(s) >= 2 THEN SubSeq(s, 3, Len(s)) ELSE <<>>]

\* s.rstrip() less one trailing token, when it is there
StripTrailing(s, token) ==
    IF s # <<>> /\ s[Len(s)] = token THEN SubSeq(s, 1, Len(s) - 1) ELSE s

\* the marker clauses whose text ends in a quote character, as
\* python_version < '3' and extra == 'a' do
QuotedClauses == ExtraClauses \cup {"py<3"}

\* the least position of an extra clause in s from i on, 0 when none: the
\* lazy group (?P<requirement>.+?) stops at the first place a match completes
RECURSIVE FirstExtraClause(_, _)
FirstExtraClause(s, i) ==
    IF i > Len(s) THEN 0
    ELSE IF s[i] \in ExtraClauses THEN i
    ELSE FirstExtraClause(s, i + 1)

\* the group (?P<extra>.+?) for the run of tokens from the extra clause to
\* the end of the string: the clause's name when the clause is last, else
\* everything up to the closing quote of the string
ExtraGroup(run) ==
    IF Len(run) = 1 THEN ExtraName(run[1])
    ELSE IF run = <<"extra=='a'", "and", "py<3">>
    THEN "a' and python_version < '3"
    ELSE IF run = <<"extra=='b'", "and", "py<3">>
    THEN "b' and python_version < '3"
    ELSE "garbled"

\* Requirement.parse: (requirement, extra), extra "" for None.  EXTRA_RE
\* matches a string that holds an extra clause and ends in a quote
RequirementParse(s) ==
    LET requirement == BaseRequirement(s)
        i == FirstExtraClause(s, 2)
    IN
    IF requirement.marker = <<>>
    THEN [requirement |-> requirement, extra |-> ""]
    ELSE IF i = 0 \/ s[Len(s)] \notin QuotedClauses
    THEN [requirement |-> requirement, extra |-> ""]
    ELSE LET rest == StripTrailing(
                         StripTrailing(SubSeq(s, 1, i - 1), "and"), ";")
         IN [requirement |-> BaseRequirement(rest),
             extra |-> ExtraGroup(SubSeq(s, i, Len(s)))]

\* an empty mapping, and extras[key].add(item) on a defaultdict(set)
EmptyDict == [k \in {} |-> {}]

AddTo(extras, key, item) ==
    IF key \in DOMAIN extras
    THEN [extras EXCEPT ![key] = @ \cup {item}]
    ELSE (key :> {item}) @@ extras

\* Marker('({}) and ({})'.format(environment, r.marker)) or Marker(environment)
CombineMarker(environment, r) ==
    IF r.marker # <<>>
    THEN [r EXCEPT !.marker = <<"(">> \o environment \o <<")", "and", "(">>
                                \o r.marker \o <<")">>]
    ELSE [r EXCEPT !.marker = environment]

\* the loop with the two elif branches exchanged: the requirement's own
\* extra decides before the entry's
RECURSIVE AddRequiresFromOwnFirst(_, _, _)
AddRequiresFromOwnFirst(entry, i, acc) ==
    IF i > Len(entry.requires) THEN acc
    ELSE LET parsed  == RequirementParse(entry.requires[i])
             r       == IF entry.environment # <<>>
                        THEN CombineMarker(entry.environment, parsed.requirement)
                        ELSE parsed.requirement
             r_extra == parsed.extra
             e_extra == entry.extra
         IN AddRequiresFromOwnFirst(entry, i + 1,
                IF e_extra = "" /\ r_extra = ""
                THEN [acc EXCEPT !.base = @ \cup {r}]
                ELSE IF r_extra # ""
                THEN [acc EXCEPT !.extras = AddTo(@, r_extra, r)]
                ELSE [acc EXCEPT !.extras = AddTo(@, e_extra, r)])

\* the loop of _add_requires over entry['requires'], from string i on
RECURSIVE AddRequiresFrom(_, _, _)
AddRequiresFrom(entry, i, acc) ==
    IF i > Len(entry.requires) THEN acc
    ELSE LET parsed  == RequirementParse(entry.requires[i])
             r       == IF entry.environment # <<>>
                        THEN CombineMarker(entry.environment, parsed.requirement)
                        ELSE parsed.requirement
             r_extra == parsed.extra
             e_extra == entry.extra
         IN AddRequiresFrom(entry, i + 1,
                IF e_extra = "" /\ r_extra = ""
                THEN [acc EXCEPT !.base = @ \cup {r}]
                ELSE IF e_extra # ""
                THEN [acc EXCEPT !.extras = AddTo(@, e_extra, r)]
                ELSE [acc EXCEPT !.extras = AddTo(@, r_extra, r)])

\* _add_requires(entry, base, extras)
add_requires(entry, acc) == AddRequiresFrom(entry, 1, acc)

\* RequirementSpecification(base, extras); default_factory tells a
\* defaultdict(set) from a plain dict
NewSpecification ==
    [base |-> {}, extras |-> EmptyDict, default_factory |-> TRUE]

\* a text entry of run_requires becomes {'requires': [entry]}
TextEntry(s) == [requires |-> <<s>>, environment |-> <<>>, extra |-> ""]

RECURSIVE FromWheelFrom(_, _, _)
FromWheelFrom(run_requires, i, acc) ==
    IF i > Len(run_requires) THEN acc
    ELSE FromWheelFrom(run_requires, i + 1,
                       add_requires(run_requires[i], acc))

\* RequirementSpecification.from_wheel(wheel) on wheel.metadata.run_requires
from_wheel(run_requires) == FromWheelFrom(run_requires, 1, NewSpecification)

RECURSIVE FromDataFrom(_, _, _)
FromDataFrom(requires_dist, i, acc) ==
    IF i > Len(requires_dist) THEN acc
    ELSE LET parsed == RequirementParse(requires_dist[i]) IN
         FromDataFrom(requires_dist, i + 1,
             IF parsed.extra = ""
             THEN [acc EXCEPT !.base = @ \cup {parsed.requirement}]
             ELSE [acc EXCEPT !.extras = AddTo(@, parsed.extra,
                                               parsed.requirement)])

\* RequirementSpecification.from_data(requires_dist)
from_data(requires_dist) == FromDataFrom(requires_dist, 1, NewSpecification)

\* RequirementSpecification.empty(): cls([], {})
empty == [base |-> {}, extras |-> EmptyDict, default_factory |-> FALSE]

\* the loop of get_dependencies over extras, from name i on; st holds the
\* specification, deps and the warnings given
RECURSIVE GetDependenciesFrom(_, _, _)
GetDependenciesFrom(extras, i, st) ==
    IF i > Len(extras) THEN st
    ELSE LET extra == extras[i] IN
         IF extra \in DOMAIN st.self.extras
         THEN GetDependenciesFrom(extras, i + 1,
                  [st EXCEPT !.deps = @ \cup st.self.extras[extra]])
         ELSE IF st.self.default_factory
         \* self.extras[extra] on a defaultdict: __missing__ stores set()
         \* under the key and returns it; no KeyError
         THEN GetDependenciesFrom(extras, i + 1,
                  [st EXCEPT !.self.extras = (extra :> {}) @@ @])
         \* KeyError: warnings.warn('dropping unknown extra ...')
         ELSE GetDependenciesFrom(extras, i + 1,
                  [st EXCEPT !.warned = Append(@, extra)])

\* RequirementSpecification.get_dependencies(extras), as
\* [self, deps, warned]; deps = set(self.base) is a new set
get_dependencies(self, extras) ==
    LET st == [self |-> self, deps |-> self.base, warned |-> <<>>] IN
    IF extras = <<>> THEN st
    ELSE GetDependenciesFrom(extras, 1, st)

(***************************************************************************)
(* The metadata the specifications are built from.                         *)
(***************************************************************************)
RequirementStrings ==
    { <<"foo">>,
      <<"bar", ";", "py<3">>,
      <<"baz", ";", "extra=='a'">>,
      <<"qux", ";", "py<3", "and", "extra=='b'">>,
      <<"quux", ";", "extra=='a'", "and", "py<3">> }

Entries ==
    { TextEntry(s) : s \in RequirementStrings }
    \cup { [requires |-> <<<<"foo">>>>, environment |-> <<>>, extra |-> "a"],
           [requires |-> <<<<"baz", ";", "extra=='a'">>>>,
            environment |-> <<"win">>, extra |-> "b"],
           [requires |-> <<<<"foo">>, <<"bar", ";", "py<3">>>>,
            environment |-> <<"win">>, extra |-> ""],
           [requires |-> <<>>, environment |-> <<>>, extra |-> "a"] }

ExtraNames == {"a", "b", "zz"}

\* a later requirement a caller may put into a returned set
Foreign == [name |-> "mine", marker |-> <<>>]

ReqIdle ==
    /\ rs = NewSpecification /\ rs0 = NewSpecification /\ rpc = "idle"
    /\ sel = <<>> /\ ret = [value |-> {}, is_base |-> FALSE]
    /\ warned = <<>> /\ ncalls = 0

\* the specification after construction
ReqInit ==
    /\ rs \in { from_wheel(es) : es \in SeqsUpTo(Entries, MaxRequires) }
              \cup { from_data(ss) :
                       ss \in SeqsUpTo(RequirementStrings, MaxRequires) }
              \cup { empty }
    /\ rs0 = rs
    /\ rpc = "built"
    /\ sel = <<>> /\ ret = [value |-> {}, is_base |-> FALSE]
    /\ warned = <<>> /\ ncalls = 0

\* a call of get_dependencies(extras)
GetDependencies ==
    /\ rpc \in {"built", "returned", "modified"}
    /\ ncalls < MaxDepCalls
    /\ \E extras \in SeqsUpTo(ExtraNames, MaxSelected) :
         LET r == get_dependencies(rs, extras) IN
         /\ sel' = extras
         /\ rs' = r.self
         /\ ret' = [value |-> r.deps, is_base |-> FALSE]
         /\ warned' = r.warned
    /\ rpc' = "returned"
    /\ ncalls' = ncalls + 1
    /\ UNCHANGED rs0
    /\ UNCHANGED <<parserVars, linkVars, serverVars, wheelVars, tagVars>>

\* the caller changes the set it was given; a set that is self.base itself
\* changes the specification with it
ModifyReturned ==
    /\ rpc = "returned"
    /\ ret' = [ret EXCEPT !.value = @ \cup {Foreign}]
    /\ rs' = IF ret.is_base THEN [rs EXCEPT !.base = @ \cup {Foreign}] ELSE rs
    /\ rpc' = "modified"
    /\ UNCHANGED <<rs0, sel, warned, ncalls>>
    /\ UNCHANGED <<parserVars, linkVars, serverVars, wheelVars, tagVars>>

(***************************************************************************)
(* requirements.py: RequirementSpecification.from_wheel on the             *)
(* run_requires of one wheel's metadata                                    *)
(***************************************************************************)
\* a requirement whose extra clause is neither last nor followed by a
\* quote: '3' > python_version ends the string
UnrecoveredString == <<"corge", ";", "extra=='a'", "and", "3>py">>

\* what wheel.metadata.run_requires may hold: text entries and mappings
WheelEntries ==
    Entries
    \cup { TextEntry(UnrecoveredString),
           [requires |-> <<<<"foo">>, <<"qux", ";", "py<3", "and", "extra=='b'">>>>,
            environment |-> <<>>, extra |-> ""] }

WheelIdle == wheel_requires = <<>> /\ wpc = "idle" /\ built = NewSpecification

\* the metadata of the wheel that from_wheel is given
WheelInit ==
    /\ wheel_requires \in SeqsUpTo(WheelEntries, MaxRequires)
    /\ wpc = "start"
    /\ built = NewSpecification

\* RequirementSpecification.from_wheel(wheel)
FromWheel ==
    /\ wpc = "start"
    /\ built' = from_wheel(wheel_requires)
    /\ wpc' = "done"
    /\ UNCHANGED wheel_requires
    /\ UNCHANGED <<parserVars, linkVars, serverVars, reqVars, tagVars>>

(***************************************************************************)
(* indexes/simpleapi/__init__.py: IndexServer._get_package_links and the   *)
(* page cache (lru_cache) it is wrapped in                                 *)
(***************************************************************************)
PYPI_PAGE_CACHE_SIZE == CacheBound

Callers == 1..NumCallers
Packages == 1..NumPackages

\* the packages that concurrent callers compete for, and the callers that
\* walk through many packages
HotPackages == {1, 2}
SerialCallers == {1, 2}

\* parser.feed(text) from tag i on, as [links, raised]
RECURSIVE FeedFrom(_, _, _)
FeedFrom(markup, i, parser_links) ==
    IF i > Len(markup) THEN [links |-> parser_links, raised |-> "none"]
    ELSE LET r == handle_starttag(parser_links, markup[i].tag, markup[i].attrs)
         IN IF r.raised # "none" THEN r ELSE FeedFrom(markup, i + 1, r.links)

\* requests' Response.ok: raise_for_status() raises from 400 on
ResponseOk(response) ==
    ~(400 <= response.status_code /\ response.status_code < 600)

NoOutcome == [kind |-> "none", links |-> <<>>, reason |-> ""]

\* a body that asks response.ok before it looks for a 404
get_package_links_ok_first(response) ==
    IF ~ResponseOk(response)
    THEN [kind |-> "APIError", links |-> <<>>, reason |-> response.reason]
    ELSE IF response.status_code = 404
    THEN [kind |-> "PackageNotFound", links |-> <<>>, reason |-> ""]
    ELSE LET parser == FeedFrom(response.text, 1, <<>>) IN
         IF parser.raised # "none"
         THEN [kind |-> parser.raised, links |-> <<>>, reason |-> ""]
         ELSE [kind |-> "links", links |-> parser.links, reason |-> ""]

\* the body of _get_package_links on the response of requests.get(url)
get_package_links(response) ==
    IF response.status_code = 404
    THEN [kind |-> "PackageNotFound", links |-> <<>>, reason |-> ""]
    ELSE IF ~ResponseOk(response)
    THEN [kind |-> "APIError", links |-> <<>>, reason |-> response.reason]
    ELSE LET parser == FeedFrom(response.text, 1, <<>>) IN
         IF parser.raised # "none"
         THEN [kind |-> parser.raised, links |-> <<>>, reason |-> ""]
         ELSE [kind |-> "links", links |-> parser.links, reason |-> ""]

\* the page cache: entries [package, links], least recently used first
CachedPackages(c) == { c[i].package : i \in 1..Len(c) }

CacheIndex(c, package) == CHOOSE i \in 1..Len(c) : c[i].package = package

\* a hit that leaves the entry where it is: first in, first out
CacheTouchKeepsPlace(c, package) == c

\* a hit makes the entry the most recently used
CacheTouch(c, package) ==
    LET i == CacheIndex(c, package) IN
    SubSeq(c, 1, i - 1) \o SubSeq(c, i + 1, Len(c)) \o <<c[i]>>

\* a result is stored; a full cache first drops its least recently used entry
CachePut(c, package, package_links) ==
    LET kept == IF Len(c) >= PYPI_PAGE_CACHE_SIZE THEN Tail(c) ELSE c IN
    Append(kept, [package |-> package, links |-> package_links])

\* a cache whose every miss fetches
CacheDecisionNoJoin(c, calls, package) ==
    IF package \in CachedPackages(c) THEN "hit" ELSE "fetch"

\* a call on the cache: a hit, a miss that joins the fetch in flight for the
\* package, or a miss that fetches
CacheDecision(c, calls, package) ==
    IF package \in CachedPackages(c) THEN "hit"
    ELSE IF \E other \in Callers : /\ calls[other].pc = "fetching"
                                   /\ calls[other].package = package
    THEN "join"
    ELSE "fetch"

(***************************************************************************)
(* The transport's answers.                                                *)
(***************************************************************************)
Response(status_code, reason, text) ==
    [status_code |-> status_code, reason |-> reason, text |-> text]

NoResponse == Response(0, "", <<>>)

Bodies ==
    { << Anchor(<<HrefAttr(Wheel5("1.0", "any"), "sha256=abc")>>),
         Anchor(<<HrefAttr(Sdist("1.0", ".tar.gz"), "")>>) >>,
      << Anchor(<<HrefAttr(Wheel4, "")>>) >> }

Responses ==
    { Response(200, "OK", b) : b \in Bodies }
    \cup { Response(304, "Not Modified", <<>>),
           Response(404, "Not Found", <<>>),
           Response(500, "Internal Server Error", <<>>) }

IdleCall ==
    [pc |-> "idle", package |-> 0, flight |-> 0, response |-> NoResponse,
     outcome |-> NoOutcome]

\* the packages in the order of their last use (a hit or a stored result),
\* the least recently used first: kept beside the cache, not read by it
Used(order, package) ==
    SelectSeq(order, LAMBDA p : p # package) \o <<package>>

ServerIdle ==
    /\ cache = <<>> /\ call = <<>> /\ flights = 0
    /\ hist = [calls |-> 0, order |-> <<>>]

\* IndexServer(base_url): nothing is cached, nobody calls
ServerInit ==
    /\ cache = <<>>
    /\ call = [c \in Callers |-> IdleCall]
    /\ flights = 0
    /\ hist = [calls |-> 0, order |-> <<>>]

\* caller c calls _get_package_links(package)
Begin(c, package) ==
    /\ call[c].pc = "idle"
    /\ hist.calls < MaxServerCalls
    /\ LET decision == CacheDecision(cache, call, package) IN
       IF decision = "hit"
       THEN /\ cache' = CacheTouch(cache, package)
            /\ call' = [call EXCEPT ![c] =
                  [pc |-> "done", package |-> package, flight |-> 0,
                   response |-> NoResponse,
                   outcome |-> [kind |-> "links",
                                links |-> cache[CacheIndex(cache, package)].links,
                                reason |-> ""]]]
            /\ flights' = flights
            /\ hist' = [hist EXCEPT !.calls = @ + 1,
                                    !.order = Used(@, package)]
       ELSE IF decision = "join"
       THEN /\ call' = [call EXCEPT ![c] =
                  [IdleCall EXCEPT !.pc = "waiting", !.package = package]]
            /\ hist' = [hist EXCEPT !.calls = @ + 1]
            /\ UNCHANGED <<cache, flights>>
       ELSE /\ call' = [call EXCEPT ![c] =
                  [IdleCall EXCEPT !.pc = "fetching", !.package = package,
                                   !.flight = flights + 1]]
            /\ flights' = flights + 1
            /\ hist' = [hist EXCEPT !.calls = @ + 1]
            /\ cache' = cache
    /\ UNCHANGED <<parserVars, linkVars, reqVars, wheelVars, tagVars>>

\* requests.get answers the fetching caller c: the rest of
\* _get_package_links runs, a result is cached, and the callers that joined
\* the fetch end as c does
Respond(c, response) ==
    /\ call[c].pc = "fetching"
    /\ LET package == call[c].package
           outcome == get_package_links(response)
           ended   == [pc |-> "done", package |-> package,
                       flight |-> call[c].flight, response |-> NoResponse,
                       outcome |-> outcome]
       IN /\ call' = [k \in Callers |->
                  IF k = c THEN [ended EXCEPT !.response = response]
                  ELSE IF call[k].pc = "waiting" /\ call[k].package = package
                  THEN ended
                  ELSE call[k]]
          /\ IF outcome.kind = "links"
             THEN /\ cache' = CachePut(cache, package, outcome.links)
                  /\ hist' = [hist EXCEPT !.order = Used(@, package)]
             ELSE /\ cache' = cache
                  /\ hist' = hist
    /\ UNCHANGED flights
    /\ UNCHANGED <<parserVars, linkVars, reqVars, wheelVars, tagVars>>

\* the call of c is over and c may call again
Return(c) ==
    /\ call[c].pc = "done"
    /\ call' = [call EXCEPT ![c] = IdleCall]
    /\ UNCHANGED <<cache, flights, hist>>
    /\ UNCHANGED <<parserVars, linkVars, reqVars, wheelVars, tagVars>>

(***************************************************************************)
(* The specifications: one per component, the others idle.                 *)
(***************************************************************************)
LinksIdle ==
    /\ cpage = <<>> /\ cand = <<>> /\ offline = FALSE /\ supported = {}
    /\ lpc = "idle" /\ clinks = <<>> /\ li = 1 /\ tried = <<>>
    /\ dres = NoResult


InitParser == ParserInit /\ LinksIdle /\ ServerIdle /\ ReqIdle /\ WheelIdle /\ TagIdle
NextParser == FeedTag
SpecParser == InitParser /\ [][NextParser]_vars

InitLinks == ParserIdle /\ LinksInit /\ ServerIdle /\ ReqIdle /\ WheelIdle /\ TagIdle
NextLinks == GetLinks \/ TryLink \/ NoWheel
SpecLinks == InitLinks /\ [][NextLinks]_vars

InitReq == ParserIdle /\ LinksIdle /\ ServerIdle /\ ReqInit /\ WheelIdle /\ TagIdle
NextReq == GetDependencies \/ ModifyReturned
SpecReq == InitReq /\ [][NextReq]_vars

InitWheel ==
    ParserIdle /\ LinksIdle /\ ServerIdle /\ ReqIdle /\ WheelInit /\ TagIdle
NextWheel == FromWheel
SpecWheel == InitWheel /\ [][NextWheel]_vars

InitTags ==
    ParserIdle /\ LinksIdle /\ ServerIdle /\ ReqIdle /\ WheelIdle /\ TagInit
NextTags == IsBinaryCompatible \/ ChangeTag
SpecTags == InitTags /\ [][NextTags]_vars

\* many callers at once on few packages
InitServer == ParserIdle /\ LinksIdle /\ ServerInit /\ ReqIdle /\ WheelIdle /\ TagIdle
NextServer ==
    \/ \E c \in Callers, package \in HotPackages : Begin(c, package)
    \/ \E c \in Callers, response \in Responses : Respond(c, response)
    \/ \E c \in Callers : Return(c)
SpecServer == InitServer /\ [][NextServer]_vars

\* few callers on more packages than the cache holds
NextCache ==
    \/ \E c \in SerialCallers, package \in Packages : Begin(c, package)
    \/ \E c \in SerialCallers, response \in Responses : Respond(c, response)
    \/ \E c \in SerialCallers : Return(c)
SpecCache == InitServer /\ [][NextCache]_vars

(***************************************************************************)
(* What the claims say of a page, stated on the markup alone.              *)
(***************************************************************************)
RecognizedExtensions == {".whl", ".tar.gz", ".tar.bz2", ".zip"}

\* feed() is over: the markup is used up or an exception left it
ParseOver == perr # "idle" /\ (pos > Len(page) \/ perr # "none")

\* the attributes named attr of a tag, in order
AttrsNamed(t, attr) == SelectSeq(t.attrs, LAMBDA a : a.attr = attr)

HasHref(t) == t.tag = "a" /\ AttrsNamed(t, "href") # <<>>

\* the filename an anchor points to
HrefFilename(t) ==
    LET h == AttrsNamed(t, "href") IN
    IF h[Len(h)].path = <<>> THEN BaseFilename ELSE h[Len(h)].path

\* the data-requires-python of an anchor, accept-any ("") when absent
RequiresPython(t) ==
    LET r == AttrsNamed(t, "data-requires-python") IN
    IF r = <<>> THEN "" ELSE r[Len(r)].text

Recognized(t) ==
    /\ HasHref(t)
    /\ HrefFilename(t) # <<>>
    /\ HrefFilename(t)[Len(HrefFilename(t))] \in RecognizedExtensions

WellFormed(t) == Recognized(t) /\ HrefFilename(t) \in WellFormedNames
Malformed(t)  == Recognized(t) /\ HrefFilename(t) \in MalformedNames

ValidRequires(t) ==
    \A i \in 1..Len(t.attrs) :
        t.attrs[i].attr = "data-requires-python"
            => t.attrs[i].text \in ValidSpecifiers

AllRequiresValid == \A i \in 1..Len(page) : ValidRequires(page[i])

\* what a link shows of the anchor it was made from
Shown(t) == <<HrefFilename(t), RequiresPython(t)>>

\* the tags of ts that Keep keeps, in order, each as Shown shows it
ShownOf(ts, Keep(_)) ==
    LET kept == SelectSeq(ts, Keep) IN
    [i \in 1..Len(kept) |-> Shown(kept[i])]

\* the produced link sequence, as filename and python requirement
Produced == [i \in 1..Len(links) |-> <<Filename(links[i]), links[i].python_specifier>>]

\* C6: once a page (with parseable data-requires-python values) is parsed,
\* the produced links are exactly the anchors with a recognized extension, in
\* page order, repeated as often as they occur, each with the
\* data-requires-python of its own anchor, and nothing was raised.
C6_LinksAreRecognizedAnchors ==
    (ParseOver /\ AllRequiresValid)
        => (perr = "none" /\ Produced = ShownOf(page, Recognized))

\* C7: once a page holding an anchor with a recognized extension and a
\* malformed stem is parsed, the parse was not aborted and every well-formed
\* anchor of the page, before and after it, is among the produced links,
\* which hold no malformed one.
C7_MalformedAnchorIsNotFatal ==
    (/\ ParseOver /\ AllRequiresValid
     /\ \E i \in 1..Len(page) : Malformed(page[i]))
        => (/\ perr \in {"none"}
            /\ Produced = ShownOf(page, WellFormed))

\* the start tag feed() handled last
LastTag == page[pos - 1]

\* C8: constructing a link from a filename with a recognized extension ends
\* in a link or in FilenameParseError and in nothing else: a wheel stem of 6
\* fields gives a non-negative integer build tag, one of 5 fields no build
\* tag, every other field count and a source stem without "-" gives
\* FilenameParseError.
C8_LinkConstructionIsTotal ==
    (pos > 1 /\ Recognized(LastTag) /\ ValidRequires(LastTag))
        => LET stem   == StripExt(HrefFilename(LastTag))
               wheel  == EndsWith(HrefFilename(LastTag), ".whl")
               fields == Len(Split(stem))
               made   == perr = "none" /\ links # <<>>
                         /\ Filename(links[Len(links)]) = HrefFilename(LastTag)
               build  == links[Len(links)].info.build_tag
           IN  /\ made \/ perr = "FilenameParseError"
               /\ (wheel /\ fields = 6 /\ made)
                     => (Len(build) = 1 /\ build[1] >= 0)
               /\ (wheel /\ fields = 5) => (made /\ build = NoBuild)
               /\ (wheel /\ fields \notin {5, 6}) => perr = "FilenameParseError"
               /\ (~wheel /\ fields < 2) => perr = "FilenameParseError"

(***************************************************************************)
(* What the claims say of get_links and get_dependencies.                  *)
(***************************************************************************)
IsSource(link) == link.klass = "SourceDistributionLink"
IsCompatibleWheel(link) ==
    /\ link.klass = "WheelDistributionLink"
    /\ <<link.info.language_implementation_tag, link.info.abi_tag,
         link.info.platform_tag>> \in supported
IsIncompatibleWheel(link) ==
    /\ link.klass = "WheelDistributionLink"
    /\ <<link.info.language_implementation_tag, link.info.abi_tag,
         link.info.platform_tag>> \notin supported

\* the links of the page whose version is the candidate's, in page order
OfVersion == SelectSeq(cpage, LAMBDA link : link.info.version = cand)

\* C5: get_links returns exactly the links of the page whose parsed version
\* equals the candidate's, each as often as on the page: the incompatible
\* wheels first, the source links next, the compatible wheels last, each
\* group in page order; so the last link is a compatible wheel whenever the
\* version has one.
C5_CandidateLinksOrdered ==
    lpc \in {"loop", "done"}
        => /\ clinks = SelectSeq(OfVersion, IsIncompatibleWheel)
                        \o SelectSeq(OfVersion, IsSource)
                        \o SelectSeq(OfVersion, IsCompatibleWheel)
           /\ (\E i \in 1..Len(OfVersion) : IsCompatibleWheel(OfVersion[i]))
                 => IsCompatibleWheel(clinks[Len(clinks)])

\* C5 witness: get_links dropped a link of another version, moved a link,
\* and returned links of all three keys.
C5_Witness ==
    /\ lpc = "loop"
    /\ Len(clinks) < Len(cpage)
    /\ clinks # OfVersion
    /\ IsCompatibleWheel(clinks[Len(clinks)])

\* C4: get_dependencies tries the candidate's links in get_links order,
\* skips a link whose artifact is unavailable, returns the specification of
\* the first link that yields an artifact, and with no such link does not
\* fail but warns and returns an empty specification.
C4_FallsBackToNextLink ==
    lpc = "done"
        => /\ dres.kind \in {"from_wheel", "empty"}
           /\ \A i \in 1..(Len(tried) - 1) : tried[i] = "unavailable"
           /\ dres.kind = "from_wheel"
                 => /\ tried[Len(tried)] = "artifact"
                    /\ dres.wheel = Filename(clinks[Len(tried)])
           /\ dres.kind = "empty"
                 => /\ Len(tried) = Len(clinks)
                    /\ \A i \in 1..Len(tried) : tried[i] = "unavailable"
                    /\ dres.warned

(***************************************************************************)
(* What the claims say of RequirementSpecification.get_dependencies.       *)
(***************************************************************************)
\* the extras the specification declared when it was built
Declared == DOMAIN rs0.extras

SelectedNames == { sel[i] : i \in 1..Len(sel) }

\* C9: get_dependencies(selected_extras) returns base united with the sets
\* of the selected extras that the specification declares, base itself for
\* an empty selection, and warns of every selected name that is not
\* declared, which adds nothing.
C9_BaseAndSelectedExtras ==
    rpc = "returned"
        => /\ ret.value = rs0.base \cup
                  UNION { rs0.extras[e] : e \in SelectedNames \cap Declared }
           /\ sel = <<>> => ret.value = rs0.base
           /\ \A e \in SelectedNames \ Declared :
                 \E i \in 1..Len(warned) : warned[i] = e

\* C10: get_dependencies is a pure read: after any calls, and after a
\* caller changed a set it was given, base and the extras map (its keys and
\* every set in it) are as they were after construction.
C10_GetDependenciesIsPure ==
    rpc # "idle"
        => /\ rs.base = rs0.base
           /\ DOMAIN rs.extras = DOMAIN rs0.extras
           /\ \A e \in DOMAIN rs.extras \cap DOMAIN rs0.extras :
                 rs.extras[e] = rs0.extras[e]

(***************************************************************************)
(* What the claims say of the index server and its page cache.             *)
(***************************************************************************)
Fetching(package) ==
    { c \in Callers : call[c].pc = "fetching" /\ call[c].package = package }

\* C1, in every state: a package has at most one fetch in flight, a caller
\* that waits for a package waits for a fetch in flight, and the callers
\* that one fetch served have the same outcome.
C1_OneFlight ==
    /\ \A package \in Packages : Cardinality(Fetching(package)) <= 1
    /\ \A c \in Callers :
          call[c].pc = "waiting" => Fetching(call[c].package) # {}
    /\ \A c1, c2 \in Callers :
          (/\ call[c1].pc = "done" /\ call[c2].pc = "done"
           /\ call[c1].flight # 0 /\ call[c1].flight = call[c2].flight)
              => /\ call[c1].package = call[c2].package
                 /\ call[c1].outcome = call[c2].outcome

\* C1, in every step: a fetch is issued only for a package that is neither
\* cached nor being fetched.
C1_FetchIssued ==
    \A c \in Callers :
        (call[c].pc = "idle" /\ call'[c].pc = "fetching")
            => /\ call'[c].package \notin CachedPackages(cache)
               /\ Fetching(call'[c].package) = {}
               /\ flights' = flights + 1

\* C1: concurrent calls for the same uncached package share one transport
\* fetch (at most one is in flight per package at any time) and all observe
\* the identical parsed link list.
C1_SingleFlight == []C1_OneFlight /\ [][C1_FetchIssued]_vars

\* C1 witness: two calls for one package were served by one fetch and
\* returned its links.
C1_Witness ==
    \E c1, c2 \in Callers :
        /\ c1 # c2
        /\ call[c1].pc = "done" /\ call[c2].pc = "done"
        /\ call[c1].flight # 0 /\ call[c1].flight = call[c2].flight
        /\ call[c1].outcome.kind = "links"
        /\ call[c2].outcome.kind = "links"

\* the n most recently used packages
LastUsed(n) ==
    LET order == hist.order IN
    { order[i] : i \in (IF Len(order) > n THEN Len(order) - n + 1 ELSE 1)
                       ..Len(order) }

\* C2, in every state: the cache holds at most PYPI_PAGE_CACHE_SIZE
\* packages, each once, and they are the most recently used ones: what was
\* dropped was least recently used.
C2_Bounded ==
    /\ Len(cache) <= PYPI_PAGE_CACHE_SIZE
    /\ Cardinality(CachedPackages(cache)) = Len(cache)
    /\ CachedPackages(cache) = LastUsed(PYPI_PAGE_CACHE_SIZE)

\* C2, in every step: a call for a cached package returns the cached list
\* at once and issues no fetch.
C2_HitReturnsCached ==
    \A c \in Callers :
        (/\ call[c].pc = "idle" /\ call'[c].pc # "idle"
         /\ call'[c].package \in CachedPackages(cache))
            => /\ call'[c].pc = "done"
               /\ flights' = flights
               /\ call'[c].outcome.kind = "links"
               /\ \E i \in 1..Len(cache) :
                     /\ cache[i].package = call'[c].package
                     /\ cache[i].links = call'[c].outcome.links

\* C2: the page cache never holds more than its capacity, a call for a
\* cached package is answered from the cache without a fetch, and a store
\* into a full cache drops the least recently used entry.
C2_BoundedLruCache == []C2_Bounded /\ [][C2_HitReturnsCached]_vars

\* C2 witness: the cache is full, a package was dropped from it, and a call
\* was answered from the cache.
C2_Witness ==
    /\ Len(cache) = PYPI_PAGE_CACHE_SIZE
    /\ Len(hist.order) > Len(cache)
    /\ \E c \in Callers : call[c].pc = "done" /\ call[c].flight = 0

\* what feeding a body to the page parser gives
Parsed(text) == FeedFrom(text, 1, <<>>)

\* C3, in every state: the caller whose fetch was answered ended by the
\* status: 404 in PackageNotFound, another status from 400 on in
\* APIError(reason), and a status below 400 in what parsing the body gives.
C3_ByStatus ==
    \A c \in Callers :
        (call[c].pc = "done" /\ call[c].response # NoResponse)
            => LET response == call[c].response
                   outcome  == call[c].outcome IN
               /\ response.status_code = 404
                     => outcome.kind = "PackageNotFound"
               /\ (response.status_code # 404 /\ response.status_code >= 400)
                     => /\ outcome.kind = "APIError"
                        /\ outcome.reason = response.reason
               /\ response.status_code < 400
                     => IF Parsed(response.text).raised = "none"
                        THEN /\ outcome.kind = "links"
                             /\ outcome.links = Parsed(response.text).links
                        ELSE outcome.kind = Parsed(response.text).raised

\* C3, in every step: the answer to a fetch ends the call; no further
\* fetch is issued in it.
C3_NoRetry ==
    \A c \in Callers :
        (call[c].pc = "fetching" /\ call'[c].pc # "fetching")
            => call'[c].pc = "done" /\ flights' = flights

Declarations ==
    UNION { { <<i, j>> : j \in 1..Len(wheel_requires[i].requires) } :
              i \in 1..Len(wheel_requires) }

\* the extra field of the entry a string stands in, "" when it has none
EntryExtra(d) == wheel_requires[d[1]].extra

\* the legacy extra that parsing recovers from the string, "" when none
LegacyExtra(d) ==
    RequirementParse(wheel_requires[d[1]].requires[d[2]]).extra

\* the requirement the string gives, under the environment of its entry
RequirementOf(d) ==
    LET entry  == wheel_requires[d[1]]
        parsed == RequirementParse(entry.requires[d[2]])
    IN IF entry.environment # <<>>
       THEN CombineMarker(entry.environment, parsed.requirement)
       ELSE parsed.requirement

Unconditional(d) == EntryExtra(d) = "" /\ LegacyExtra(d) = ""

\* the extra a string is declared under: the entry's when it has one
DeclaredExtra(d) ==
    IF EntryExtra(d) # "" THEN EntryExtra(d) ELSE LegacyExtra(d)

\* C11: from_wheel puts the requirement of every string into one set:
\* base holds the requirements of the strings with neither an entry extra
\* nor a recovered legacy extra and nothing else; the extras set of a name
\* holds the requirements of the strings whose entry has that extra, or
\* whose entry has none and whose own legacy extra is that name, and
\* nothing else.
C11_OneDestinationSet ==
    wpc = "done" =>
        /\ built.base =
              { RequirementOf(d) : d \in { e \in Declarations : Unconditional(e) } }
        /\ DOMAIN built.extras =
              { DeclaredExtra(d) : d \in { e \in Declarations : ~Unconditional(e) } }
        /\ \A name \in DOMAIN built.extras :
              built.extras[name] =
                { RequirementOf(d) :
                    d \in { e \in Declarations :
                              ~Unconditional(e) /\ DeclaredExtra(e) = name } }

\* C11 witness: a specification was built from metadata with a string of a
\* legacy extra inside an entry of another extra, and with a string that
\* went to base.
C11_Witness ==
    /\ wpc = "done"
    /\ \E d \in Declarations :
          EntryExtra(d) # "" /\ LegacyExtra(d) \notin {"", EntryExtra(d)}
    /\ \E d \in Declarations : Unconditional(d)
    /\ built.base # {}

(***************************************************************************)
(* What the claims say of is_binary_compatible, stated on the tags alone.  *)
(***************************************************************************)
\* the tag triple of a wheel link
WheelTagOf(link) ==
    <<link.info.language_implementation_tag, link.info.abi_tag,
      link.info.platform_tag>>

Member(link) == WheelTagOf(link) \in wsupported

\* the answer to the link is the membership of its triple
AnswerIsMembership ==
    compat.state = "asked" => (compat.result <=> Member(wlink))

\* the link asked about differs in one tag from the link asked before
AskedAfterChange == compat.state = "asked" /\ compat.changes > 0

\* C12, as amended: is_binary_compatible is true exactly when the triple
\* (interpreter tag, abi tag, platform tag) of the link is a member of the
\* supported tags; after one tag value is changed the answer differs from
\* the one before exactly when the membership of the two triples differs.
C12_ExactMembership ==
    /\ AnswerIsMembership
    /\ AskedAfterChange =>
          ((compat.result # compat.before.result)
              <=> (Member(wlink) # Member(compat.before.link)))

\* C12 witness: a compatible link became incompatible by the change of one
\* tag value.
C12_Witness ==
    /\ AskedAfterChange
    /\ compat.before.result
    /\ ~compat.result

\* C12, as stated: is_binary_compatible is true exactly when the triple is
\* a member of the supported tags, and changing any one tag value flips the
\* answer.
C12_AnyChangeFlips ==
    /\ AnswerIsMembership
    /\ AskedAfterChange => (compat.result # compat.before.result)

====
